---- MODULE Spec2Model ----
(***************************************************************************)
(* Model of src/utils/convert_text_to_speech.ts (SoulSync VoiceMode):      *)
(*   - convertTextToSpeech: validation, one awaited generateContent call,  *)
(*     extraction of the inline base64 payload, try/catch to a tagged      *)
(*     result.  Two invocations, A and B, interleave around their awaits.  *)
(*   - saveWaveFile: a promise wired to the 'finish' and 'error' events of *)
(*     a wav.FileWriter, which is written once and ended.                  *)
(***************************************************************************)
EXTENDS Integers, Sequences, FiniteSets, TLC

\* ------------------------------------------------------------------ bounds
MaxPayloadLen == 3
MaxPcmLen == 2

\* ------------------------------------------------------- program constants
TTS_MODEL == "gemini-2.5-flash-preview-tts"
ErrMissingKeys == "Missing keys"
ErrMissingText == "Missing textMessage."
ErrModel == "Internal Server Error, Try again after some time"
ErrNoAudio == "No audio data received from the API."
ErrGeneric == "Failed to generate audio."

\* Number of property accesses in
\* response.candidates?.[0]?.content?.parts?.[0]?.inlineData?.data
ChainLinks == 7

\* ------------------------------------------------------------------ inputs
Calls == {"A", "B"}

ApiKeys == {"", "key"}
Texts == {"", "hello"}
Models == {TTS_MODEL, "gemini-pro"}

\* the defaults of the signature, and a second format whose bitDepth is
\* not sampleWidth * 8
DefaultFormat ==
  [voice |-> "Zephyr", channels |-> 1, rate |-> 24000, sampleWidth |-> 2, bitDepth |-> 16]
OtherFormat ==
  [voice |-> "Puck", channels |-> 2, rate |-> 48000, sampleWidth |-> 1, bitDepth |-> 24]
ThirdFormat ==
  [voice |-> "Kore", channels |-> 2, rate |-> 44100, sampleWidth |-> 3, bitDepth |-> 16]
Formats == {DefaultFormat, OtherFormat, ThirdFormat}

Arguments ==
  [apiKey : ApiKeys, textMessage : Texts, modelName : Models, format : Formats]

\* a base64 string is modelled by the 6-bit values of its characters
Sextets == {1, 62}
Payloads == UNION {[1..n -> Sextets] : n \in 0..MaxPayloadLen}

\* what the awaited generateContent call can do: reject/throw, resolve to
\* something that is not an object, or resolve to a response in which the
\* first `links` accesses of the chain are present; with all ChainLinks
\* present, `data` is the string found.  `rate` is the sample rate the
\* service reports in the part's mime type.
ReportedRates == {24000, 16000}
Upstreams ==
  {[kind |-> "throw", links |-> 0, data |-> <<>>, rate |-> 24000],
   [kind |-> "null", links |-> 0, data |-> <<>>, rate |-> 24000]}
  \cup {[kind |-> "response", links |-> n, data |-> <<>>, rate |-> 24000] :
          n \in 0..(ChainLinks - 1)}
  \cup [kind : {"response"}, links : {ChainLinks}, data : Payloads, rate : ReportedRates]

\* what testTTS hands to saveWaveFile: the audioConfig of a success result,
\* a PCM buffer, and a path that is writable, not writable, or not a legal
\* path at all (createWriteStream throws on it)
WavConfigs ==
  {[channels |-> f.channels, sampleRate |-> f.rate, sampleWidth |-> f.sampleWidth,
    bitDepth |-> f.bitDepth, voice |-> f.voice] : f \in Formats}
PcmBytes == {0, 255}
PcmBuffers == UNION {[1..n -> PcmBytes] : n \in 0..MaxPcmLen}
PathKinds == {"writable", "unwritable", "illegal"}

VARIABLES pc, args, netCalls, upstream, promise, result, overlapped

ttsVars == <<pc, args, netCalls, upstream, promise, result, overlapped>>

VARIABLES wpc, wargs, wopts, wpromise, buffered, disk, streamFd, headerFd,
          doneEmitted, ioError, crashed

wavVars == <<wpc, wargs, wopts, wpromise, buffered, disk, streamFd, headerFd,
             doneEmitted, ioError, crashed>>

vars == <<ttsVars, wavVars>>

\* --------------------------------------------------------- pure functions
\* Buffer.from(data, "base64"): each four characters give three bytes, a
\* trailing pair one byte, a trailing triple two bytes, a lone trailing
\* character nothing.
RECURSIVE Base64Decode(_)
Base64Decode(s) ==
  IF Len(s) < 2 THEN <<>>
  ELSE IF Len(s) = 2 THEN << s[1] * 4 + s[2] \div 16 >>
  ELSE IF Len(s) = 3 THEN << s[1] * 4 + s[2] \div 16,
                             (s[2] % 16) * 16 + s[3] \div 4 >>
  ELSE << s[1] * 4 + s[2] \div 16,
          (s[2] % 16) * 16 + s[3] \div 4,
          (s[3] % 4) * 64 + s[4] >> \o Base64Decode(SubSeq(s, 5, Len(s)))

\* response.candidates?.[0]?.content?.parts?.[0]?.inlineData?.data :
\* <<>> stands for undefined, <<d>> for the string d
ExtractData(r) == IF r.links = ChainLinks THEN <<r.data>> ELSE <<>>

\* !data : undefined and the empty string are falsy
Falsy(d) == d = <<>> \/ d[1] = <<>>

Failure(msg) == [success |-> FALSE, error |-> msg]

\* variant: the sample rate is read from what the service reports
AudioConfigFromResponse(a, r) ==
  [channels |-> a.format.channels,
   sampleRate |-> r.rate,
   sampleWidth |-> a.format.sampleWidth,
   bitDepth |-> a.format.bitDepth,
   voice |-> a.format.voice]

AudioConfigOf(a, r) ==
  [channels |-> a.format.channels,
   sampleRate |-> a.format.rate,
   sampleWidth |-> a.format.sampleWidth,
   bitDepth |-> a.format.bitDepth,
   voice |-> a.format.voice]

Success(a, r) ==
  [success |-> TRUE,
   audioBase64 |-> ExtractData(r)[1],
   audioBuffer |-> Base64Decode(ExtractData(r)[1]),
   audioConfig |-> AudioConfigOf(a, r)]

\* variant: the text is checked before the key
ValidateTextFirst(a) ==
  IF a.textMessage = "" THEN <<Failure(ErrMissingText)>>
  ELSE IF a.apiKey = "" THEN <<Failure(ErrMissingKeys)>>
  ELSE IF a.modelName # TTS_MODEL THEN <<Failure(ErrModel)>>
  ELSE <<>>

\* variant: the model is checked before the text
ValidateModelFirst(a) ==
  IF a.apiKey = "" THEN <<Failure(ErrMissingKeys)>>
  ELSE IF a.modelName # TTS_MODEL THEN <<Failure(ErrModel)>>
  ELSE IF a.textMessage = "" THEN <<Failure(ErrMissingText)>>
  ELSE <<>>

\* the three checks before the client is built; <<>> when all pass
Validate(a) ==
  IF a.apiKey = "" THEN <<Failure(ErrMissingKeys)>>
  ELSE IF a.textMessage = "" THEN <<Failure(ErrMissingText)>>
  ELSE IF a.modelName # TTS_MODEL THEN <<Failure(ErrModel)>>
  ELSE <<>>

\* variant: plain property accesses, which throw on an absent link
AfterAwaitPlainAccess(a, r) ==
  IF r.kind # "response" \/ r.links < ChainLinks - 1 THEN <<"throw">>
  ELSE IF Falsy(ExtractData(r)) THEN <<"return", Failure(ErrNoAudio)>>
  ELSE <<"return", Success(a, r)>>

\* the statements after the await, inside the try block: <<"throw">> when
\* one of them throws, else <<"return", value>>
AfterAwait(a, r) ==
  IF r.kind # "response" THEN <<"throw">>
  ELSE IF Falsy(ExtractData(r)) THEN <<"return", Failure(ErrNoAudio)>>
  ELSE <<"return", Success(a, r)>>

\* variant: the exception is passed on
CatchRethrow(completion) == completion

\* catch { return { success: false, error: "Failed to generate audio." } }
Catch(completion) ==
  IF completion[1] = "throw" THEN <<"return", Failure(ErrGeneric)>> ELSE completion

\* ---------------------------------------------------------------- actions
TTSInit ==
  /\ pc = [c \in Calls |-> "idle"]
  /\ args = [c \in Calls |-> <<>>]
  /\ netCalls = [c \in Calls |-> 0]
  /\ upstream = [c \in Calls |-> <<>>]
  /\ promise = [c \in Calls |-> "none"]
  /\ result = [c \in Calls |-> <<>>]
  /\ overlapped = FALSE

\* a call that fails validation: runs to its return without suspending
CallRejected(c) ==
  \E a \in Arguments :
    /\ pc[c] = "idle"
    /\ Validate(a) # <<>>
    /\ pc' = [pc EXCEPT ![c] = "done"]
    /\ args' = [args EXCEPT ![c] = <<a>>]
    /\ promise' = [promise EXCEPT ![c] = "fulfilled"]
    /\ result' = [result EXCEPT ![c] = <<Validate(a)[1]>>]
    /\ UNCHANGED <<netCalls, upstream, overlapped>>
    /\ UNCHANGED wavVars

\* a call that passes validation: builds the client, calls generateContent
\* and suspends at the await
CallIssued(c) ==
  \E a \in Arguments :
    /\ pc[c] = "idle"
    /\ Validate(a) = <<>>
    /\ pc' = [pc EXCEPT ![c] = "awaiting"]
    /\ args' = [args EXCEPT ![c] = <<a>>]
    /\ promise' = [promise EXCEPT ![c] = "pending"]
    /\ netCalls' = [netCalls EXCEPT ![c] = @ + 1]
    /\ overlapped' = (overlapped \/ \E d \in Calls \ {c} : pc[d] = "awaiting")
    /\ UNCHANGED <<upstream, result>>
    /\ UNCHANGED wavVars

\* variant: a rejected request is issued once more
ResumeWithRetry(c) ==
  \E r \in Upstreams :
    /\ pc[c] = "awaiting"
    /\ IF r.kind = "throw" /\ netCalls[c] < 2
       THEN /\ netCalls' = [netCalls EXCEPT ![c] = @ + 1]
            /\ UNCHANGED <<pc, args, upstream, promise, result, overlapped>>
       ELSE /\ promise' = [promise EXCEPT ![c] = "fulfilled"]
            /\ result' = [result EXCEPT ![c] =
                            <<Catch(AfterAwait(args[c][1], r))[2]>>]
            /\ pc' = [pc EXCEPT ![c] = "done"]
            /\ upstream' = [upstream EXCEPT ![c] = <<r>>]
            /\ UNCHANGED <<args, netCalls, overlapped>>
    /\ UNCHANGED wavVars

\* variant: the parameters live in one place shared by all calls, so a call
\* resumes with those of whichever call stored them last
ResumeSharedArguments(c) ==
  \E r \in Upstreams, d \in Calls :
    /\ pc[c] = "awaiting"
    /\ args[d] # <<>>
    /\ promise' = [promise EXCEPT ![c] = "fulfilled"]
    /\ result' = [result EXCEPT ![c] = <<Catch(AfterAwait(args[d][1], r))[2]>>]
    /\ pc' = [pc EXCEPT ![c] = "done"]
    /\ upstream' = [upstream EXCEPT ![c] = <<r>>]
    /\ UNCHANGED <<args, netCalls, overlapped>>
    /\ UNCHANGED wavVars

\* the awaited call settles and the function runs to its return
Resume(c) ==
  \E r \in Upstreams :
    /\ pc[c] = "awaiting"
    /\ LET completion == Catch(AfterAwait(args[c][1], r))
       IN /\ promise' = [promise EXCEPT ![c] =
                           IF completion[1] = "return" THEN "fulfilled" ELSE "rejected"]
          /\ result' = [result EXCEPT ![c] =
                           IF completion[1] = "return" THEN <<completion[2]>> ELSE <<>>]
    /\ pc' = [pc EXCEPT ![c] = "done"]
    /\ upstream' = [upstream EXCEPT ![c] = <<r>>]
    /\ UNCHANGED <<args, netCalls, overlapped>>
    /\ UNCHANGED wavVars

TTSNext == \E c \in Calls : CallRejected(c) \/ CallIssued(c) \/ Resume(c)

\* ------------------------------------------------------------ saveWaveFile
\* The wav package is a dependency, not part of the source tree.  Its
\* FileWriter is a Transform stream piped into fs.createWriteStream(path):
\* the constructor pushes a 44-byte header with placeholder sizes, _flush
\* fills the sizes in and has the header rewritten at offset 0 through a
\* second descriptor (fs.open(path, "r+")), after which 'done' is emitted.
\* 'finish' is the Transform's own event: its writable side has ended.
\* File operations are taken to complete in the order they were issued.
HeaderLength == 44

\* v as n little-endian bytes (writeUInt16LE / writeUInt32LE)
LE(v, n) == [i \in 1..n |-> (v \div (256 ^ (i - 1))) % 256]

\* the size fields before the data length is known (MAX_WAV based)
PlaceholderRiffSize == <<147, 255, 255, 255>>
PlaceholderDataSize == <<111, 255, 255, 255>>

RiffTag == <<82, 73, 70, 70>>
WaveTag == <<87, 65, 86, 69>>
FmtTag == <<102, 109, 116, 32>>
DataTag == <<100, 97, 116, 97>>

\* the RIFF/WAVE header for the writer's options and the two size fields
Header(o, riffSize, dataSize) ==
  RiffTag \o riffSize \o WaveTag \o FmtTag \o LE(16, 4) \o LE(1, 2)
    \o LE(o.channels, 2) \o LE(o.sampleRate, 4)
    \o LE((o.sampleRate * o.channels * o.bitDepth) \div 8, 4)
    \o LE((o.channels * o.bitDepth) \div 8, 2)
    \o LE(o.bitDepth, 2)
    \o DataTag \o dataSize

PlaceholderHeader(o) == Header(o, PlaceholderRiffSize, PlaceholderDataSize)

FinalHeader(o, n) == Header(o, LE(n + HeaderLength - 8, 4), LE(n, 4))

\* variant: the sample width in bytes is passed as the bit depth
WriterOptionsWidthAsDepth(channels, rate, sampleWidth) ==
  [channels |-> channels, sampleRate |-> rate, bitDepth |-> sampleWidth]

\* the options object saveWaveFile builds for the FileWriter
WriterOptions(channels, rate, sampleWidth) ==
  [channels |-> channels, sampleRate |-> rate, bitDepth |-> sampleWidth * 8]

\* resolve / reject of a promise: only a pending promise changes
Resolve(p) == IF p = "pending" THEN "resolved" ELSE p
Reject(p) == IF p = "pending" THEN "rejected" ELSE p

\* writer.on("finish", resolve); writer.on("error", reject)
OnFinish(p) == Resolve(p)
OnError(p) == Reject(p)

WavInit ==
  /\ wpc = "idle"
  /\ wargs = <<>>
  /\ wopts = <<>>
  /\ wpromise = "none"
  /\ buffered = <<>>
  /\ disk = <<>>
  /\ streamFd = "none"
  /\ headerFd = "none"
  /\ doneEmitted = FALSE
  /\ ioError = FALSE
  /\ crashed = FALSE

\* testTTS calls saveWaveFile with the result's buffer and the channels,
\* sampleRate and sampleWidth of its audioConfig; the executor builds the
\* writer, registers the two listeners, writes the buffer and ends the
\* writer.  An exception thrown by the executor rejects the promise.
SaveWaveFile ==
  \E cfg \in WavConfigs, pcm \in PcmBuffers, path \in PathKinds :
    /\ wpc = "idle"
    /\ wargs' = <<[config |-> cfg, pcmData |-> pcm, path |-> path]>>
    /\ IF path = "illegal"
       THEN /\ wpromise' = Reject("pending")
            /\ wpc' = "threw"
            /\ UNCHANGED <<wopts, buffered>>
       ELSE LET o == WriterOptions(cfg.channels, cfg.sampleRate, cfg.sampleWidth)
            IN /\ wopts' = <<o>>
               /\ buffered' = PlaceholderHeader(o) \o pcm
               /\ wpromise' = "pending"
               /\ wpc' = "ended"
    /\ UNCHANGED <<disk, streamFd, headerFd, doneEmitted, ioError, crashed>>
    /\ UNCHANGED ttsVars

\* the writer's writable side has ended: 'finish' runs the listener
EmitFinish ==
  /\ wpc = "ended"
  /\ wpromise' = OnFinish(wpromise)
  /\ wpc' = "openStream"
  /\ UNCHANGED <<wargs, wopts, buffered, disk, streamFd, headerFd,
                 doneEmitted, ioError, crashed>>
  /\ UNCHANGED ttsVars

\* an 'error' of the file stream has no listener: uncaught exception
StreamError ==
  /\ ioError' = TRUE
  /\ crashed' = TRUE
  /\ wpc' = "crashed"

\* the file stream's open(path, "w") completes
StreamOpen ==
  /\ wpc = "openStream"
  /\ IF wargs[1].path = "writable"
     THEN /\ streamFd' = "open"
          /\ disk' = <<>>
          /\ wpc' = "openHeader"
          /\ UNCHANGED <<ioError, crashed>>
     ELSE /\ StreamError
          /\ UNCHANGED <<streamFd, disk>>
  /\ UNCHANGED <<wargs, wopts, wpromise, buffered, headerFd, doneEmitted>>
  /\ UNCHANGED ttsVars

\* the header rewrite's open(path, "r+") completes; a failure is emitted
\* as 'error' on the writer
HeaderOpen ==
  \E ok \in BOOLEAN :
    /\ wpc = "openHeader"
    /\ IF ok
       THEN /\ headerFd' = "open"
            /\ UNCHANGED <<wpromise, ioError>>
       ELSE /\ headerFd' = "failed"
            /\ ioError' = TRUE
            /\ wpromise' = OnError(wpromise)
    /\ wpc' = "writeStream"
    /\ UNCHANGED <<wargs, wopts, buffered, disk, streamFd, doneEmitted, crashed>>
    /\ UNCHANGED ttsVars

\* the file stream writes what was piped into it
StreamWrite ==
  \E ok \in BOOLEAN :
    /\ wpc = "writeStream"
    /\ IF ok
       THEN /\ disk' = buffered
            /\ buffered' = <<>>
            /\ wpc' = "writeHeader"
            /\ UNCHANGED <<streamFd, ioError, crashed>>
       ELSE /\ StreamError
            /\ streamFd' = "closed"
            /\ UNCHANGED <<disk, buffered>>
    /\ UNCHANGED <<wargs, wopts, wpromise, headerFd, doneEmitted>>
    /\ UNCHANGED ttsVars

\* the final header is written at offset 0 through the second descriptor;
\* on failure the descriptor is closed and 'error' emitted on the writer
HeaderWrite ==
  \E ok \in BOOLEAN :
    /\ wpc = "writeHeader"
    /\ IF headerFd # "open"
       THEN UNCHANGED <<disk, headerFd, ioError, wpromise>>
       ELSE IF ok
       THEN /\ disk' = FinalHeader(wopts[1], Len(wargs[1].pcmData))
                         \o SubSeq(disk, HeaderLength + 1, Len(disk))
            /\ UNCHANGED <<headerFd, ioError, wpromise>>
       ELSE /\ headerFd' = "closed"
            /\ ioError' = TRUE
            /\ wpromise' = OnError(wpromise)
            /\ UNCHANGED disk
    /\ wpc' = "closeStream"
    /\ UNCHANGED <<wargs, wopts, buffered, streamFd, doneEmitted, crashed>>
    /\ UNCHANGED ttsVars

\* the file stream has finished and closes its descriptor
StreamClose ==
  /\ wpc = "closeStream"
  /\ streamFd' = "closed"
  /\ wpc' = "closeHeader"
  /\ UNCHANGED <<wargs, wopts, wpromise, buffered, disk, headerFd,
                 doneEmitted, ioError, crashed>>
  /\ UNCHANGED ttsVars

\* the second descriptor is closed and 'done' emitted
HeaderClose ==
  /\ wpc = "closeHeader"
  /\ IF headerFd = "open"
     THEN headerFd' = "closed" /\ doneEmitted' = TRUE
     ELSE UNCHANGED <<headerFd, doneEmitted>>
  /\ wpc' = "complete"
  /\ UNCHANGED <<wargs, wopts, wpromise, buffered, disk, streamFd, ioError, crashed>>
  /\ UNCHANGED ttsVars

WavNext ==
  \/ SaveWaveFile
  \/ EmitFinish
  \/ StreamOpen
  \/ HeaderOpen
  \/ StreamWrite
  \/ HeaderWrite
  \/ StreamClose
  \/ HeaderClose

Init == TTSInit /\ WavInit

Next == TTSNext

Spec == Init /\ [][Next]_vars

WavSpec == Init /\ [][WavNext]_vars

\* ================================================================= claims
\* vocabulary of the claims, written from their wording
Started(c) == args[c] # <<>>
Finished(c) == pc[c] = "done"
PassesValidation(a) ==
  a.apiKey # "" /\ a.textMessage # "" /\ a.modelName = "gemini-2.5-flash-preview-tts"
IsFailure(r, msg) == r = [success |-> FALSE, error |-> msg]
IsFailureVariant(r) == DOMAIN r = {"success", "error"} /\ r.success = FALSE
IsSuccessVariant(r) ==
  /\ DOMAIN r = {"success", "audioBase64", "audioBuffer", "audioConfig"}
  /\ r.success = TRUE

\* base64 as a bit stream: character k carries bits 6k .. 6k+5, byte i of
\* the decoding is bits 8i .. 8i+7, and incomplete trailing bits are dropped
StreamBit(p, k) == (p[(k \div 6) + 1] \div (2 ^ (5 - (k % 6)))) % 2
RECURSIVE BitsValue(_, _, _)
BitsValue(p, from, n) ==
  IF n = 0 THEN 0
  ELSE 2 * BitsValue(p, from, n - 1) + StreamBit(p, from + n - 1)
DecodedBytes(p) == [i \in 1..((6 * Len(p)) \div 8) |-> BitsValue(p, 8 * (i - 1), 8)]

\* C1: a call with an empty apiKey, whatever its other arguments, is
\* fulfilled with the failure "Missing keys" and makes no outbound request.
C1_EmptyKeyFails ==
  \A c \in Calls :
    (Started(c) /\ args[c][1].apiKey = "") =>
       /\ promise[c] = "fulfilled"
       /\ result[c] = << [success |-> FALSE, error |-> "Missing keys"] >>
       /\ netCalls[c] = 0
       /\ upstream[c] = <<>>

C1_Witness ==
  \E c \in Calls :
    /\ Finished(c)
    /\ args[c][1].apiKey = ""
    /\ args[c][1].textMessage = ""
    /\ args[c][1].modelName # TTS_MODEL

\* C2: the checks run in the order apiKey, text, model; the message is that
\* of the first failing check, and a call failing any of them never
\* contacts the service.
C2_ValidationOrder ==
  \A c \in Calls :
    Started(c) =>
      LET a == args[c][1]
      IN /\ a.apiKey = "" => IsFailure(result[c][1], "Missing keys")
         /\ (a.apiKey # "" /\ a.textMessage = "")
              => IsFailure(result[c][1], "Missing textMessage.")
         /\ (a.apiKey # "" /\ a.textMessage # "" /\ a.modelName # TTS_MODEL)
              => IsFailure(result[c][1],
                           "Internal Server Error, Try again after some time")
         /\ ~PassesValidation(a) =>
              (Finished(c) /\ netCalls[c] = 0 /\ upstream[c] = <<>>)

C2_Witness ==
  \E c, d \in Calls :
    /\ Finished(c) /\ Finished(d)
    /\ args[c][1].apiKey # "" /\ args[c][1].textMessage = ""
    /\ args[c][1].modelName # TTS_MODEL
    /\ args[d][1].apiKey # "" /\ args[d][1].textMessage # ""
    /\ args[d][1].modelName # TTS_MODEL

\* C3: a validated call whose upstream response carries a non-empty base64
\* payload P returns the success variant with audioBase64 = P, audioBuffer
\* the base64 decoding of P, and an audioConfig equal, field by field, to
\* the caller's parameters.
HasPayload(c) ==
  /\ Finished(c)
  /\ upstream[c] # <<>>
  /\ upstream[c][1].kind = "response"
  /\ upstream[c][1].links = ChainLinks
  /\ upstream[c][1].data # <<>>

C3_SuccessEchoesRequest ==
  \A c \in Calls :
    HasPayload(c) =>
      LET r == result[c][1]
          f == args[c][1].format
      IN /\ promise[c] = "fulfilled"
         /\ IsSuccessVariant(r)
         /\ r.audioBase64 = upstream[c][1].data
         /\ r.audioBuffer = DecodedBytes(upstream[c][1].data)
         /\ r.audioConfig = [channels |-> f.channels, sampleRate |-> f.rate,
                             sampleWidth |-> f.sampleWidth, bitDepth |-> f.bitDepth,
                             voice |-> f.voice]

C3_Witness ==
  \E c \in Calls :
    /\ HasPayload(c)
    /\ Len(upstream[c][1].data) = 3
    /\ upstream[c][1].rate # args[c][1].format.rate
    /\ args[c][1].format.bitDepth # 8 * args[c][1].format.sampleWidth
    /\ Len(result[c][1].audioBuffer) = 2

\* C4: when a link of candidates[0].content.parts[0].inlineData.data is
\* absent from the response of a validated call, the result is the failure
\* "No audio data received from the API.", never a success.
LinkAbsent(c) ==
  /\ Finished(c)
  /\ upstream[c] # <<>>
  /\ upstream[c][1].kind = "response"
  /\ upstream[c][1].links < ChainLinks

C4_NoAudioData ==
  \A c \in Calls :
    LinkAbsent(c) =>
      /\ promise[c] = "fulfilled"
      /\ result[c] = << [success |-> FALSE,
                         error |-> "No audio data received from the API."] >>

C4_Witness ==
  \E c, d \in Calls :
    /\ LinkAbsent(c) /\ upstream[c][1].links = 0
    /\ LinkAbsent(d) /\ upstream[d][1].links = ChainLinks - 1

\* C5: the promise of a call is never rejected; a finished call is
\* fulfilled with exactly one of the two variants; an exception during the
\* call gives the failure "Failed to generate audio." and nothing else.
C5_NeverThrows ==
  \A c \in Calls :
    /\ promise[c] # "rejected"
    /\ Finished(c) =>
         /\ promise[c] = "fulfilled"
         /\ Len(result[c]) = 1
         /\ IsFailureVariant(result[c][1]) \/ IsSuccessVariant(result[c][1])
    /\ (upstream[c] # <<>> /\ upstream[c][1].kind \in {"throw", "null"}) =>
         result[c] = << [success |-> FALSE, error |-> "Failed to generate audio."] >>

C5_Witness ==
  \E c, d \in Calls :
    /\ Finished(c) /\ upstream[c] # <<>> /\ upstream[c][1].kind = "throw"
    /\ Finished(d) /\ upstream[d] # <<>> /\ upstream[d][1].kind = "null"

\* C6: a call that passes validation issues exactly one outbound request,
\* no call issues more than one, and a call that has finished, whatever
\* its outcome, issues none afterwards.
C6_OneRequestNoRetry ==
  [][\A c \in Calls :
       /\ netCalls'[c] <= 1
       /\ Started(c)' =>
            (netCalls'[c] = IF PassesValidation(args'[c][1]) THEN 1 ELSE 0)
       /\ Finished(c) =>
            (Finished(c)' /\ netCalls'[c] = netCalls[c] /\ result'[c] = result[c])]_vars

C6_Witness ==
  \E c, d \in Calls :
    /\ Finished(c) /\ netCalls[c] = 1 /\ upstream[c][1].kind = "throw"
    /\ Finished(d) /\ netCalls[d] = 1 /\ upstream[d][1].kind = "response"
    /\ upstream[d][1].links < ChainLinks

\* C10: under any interleaving of two calls, the result of each is the one
\* its own arguments and its own upstream response give when it runs alone.
AloneResult(a, u) ==
  IF a.apiKey = "" THEN [success |-> FALSE, error |-> "Missing keys"]
  ELSE IF a.textMessage = "" THEN [success |-> FALSE, error |-> "Missing textMessage."]
  ELSE IF a.modelName # "gemini-2.5-flash-preview-tts"
    THEN [success |-> FALSE, error |-> "Internal Server Error, Try again after some time"]
  ELSE IF u[1].kind # "response"
    THEN [success |-> FALSE, error |-> "Failed to generate audio."]
  ELSE IF u[1].links < ChainLinks \/ u[1].data = <<>>
    THEN [success |-> FALSE, error |-> "No audio data received from the API."]
  ELSE [success |-> TRUE,
        audioBase64 |-> u[1].data,
        audioBuffer |-> DecodedBytes(u[1].data),
        audioConfig |-> [channels |-> a.format.channels, sampleRate |-> a.format.rate,
                         sampleWidth |-> a.format.sampleWidth,
                         bitDepth |-> a.format.bitDepth, voice |-> a.format.voice]]

C10_CallsIndependent ==
  \A c \in Calls :
    Finished(c) => result[c] = << AloneResult(args[c][1], upstream[c]) >>

C10_Witness ==
  /\ overlapped
  /\ Finished("A") /\ Finished("B")
  /\ args["A"][1].format # args["B"][1].format
  /\ upstream["A"][1].data # upstream["B"][1].data
  /\ result["A"][1].success /\ result["B"][1].success

\* readers of little-endian fields at a zero-based byte offset of the file
U16(d, off) == d[off + 1] + 256 * d[off + 2]
U32(d, off) ==
  d[off + 1] + 256 * d[off + 2] + 65536 * d[off + 3] + 16777216 * d[off + 4]

\* C7: for a PCM buffer of N >= 0 bytes the written file has 44 + N bytes,
\* byteRate = sampleRate * channels * sampleWidth, blockAlign = channels *
\* sampleWidth, bitsPerSample = sampleWidth * 8 (not the caller's
\* bitDepth), dataSize = N, and the PCM bytes follow the header verbatim.
C7_WavLayout ==
  doneEmitted =>
    LET cfg == wargs[1].config
        pcm == wargs[1].pcmData
        n == Len(pcm)
    IN /\ Len(disk) = 44 + n
       /\ U16(disk, 22) = cfg.channels
       /\ U32(disk, 24) = cfg.sampleRate
       /\ U32(disk, 28) = cfg.sampleRate * cfg.channels * cfg.sampleWidth
       /\ U16(disk, 32) = cfg.channels * cfg.sampleWidth
       /\ U16(disk, 34) = cfg.sampleWidth * 8
       /\ U32(disk, 4) = 36 + n
       /\ U32(disk, 40) = n
       /\ SubSeq(disk, 45, 44 + n) = pcm

C7_Witness ==
  /\ doneEmitted
  /\ wargs[1].pcmData = <<>>
  /\ wargs[1].config.channels = 1
  /\ wargs[1].config.sampleRate = 24000
  /\ wargs[1].config.sampleWidth = 2
  /\ U32(disk, 28) = 48000 /\ U16(disk, 32) = 2 /\ U16(disk, 34) = 16
  /\ Len(disk) = 44

\* C8: the promise of saveWaveFile is resolved only once the file holds its
\* final contents (data and final header sizes) and both descriptors are
\* closed.
C8_ResolvedOnlyWhenWritten ==
  wpromise = "resolved" =>
    /\ disk = FinalHeader(wopts[1], Len(wargs[1].pcmData)) \o wargs[1].pcmData
    /\ streamFd = "closed"
    /\ headerFd = "closed"

\* C9: an I/O error while the file is written surfaces as a rejected
\* promise, never as a resolved one.
C9_IoErrorRejects ==
  ioError => wpromise = "rejected"

====
